---------------------------- MODULE Spec2Model ----------------------------
(***************************************************************************)
(* gandyn: a dynamic IP updater for Gandi LiveDNS (src/main.go).           *)
(*                                                                         *)
(* The program is one loop: resolve the public address with dig, read the  *)
(* A record from the provider while no registered address is cached, and   *)
(* write the resolved address when it differs from the record just read.   *)
(*                                                                         *)
(* Strings are sequences of one-character strings, so that slicing and     *)
(* parsing are computed and never assumed.  The empty Go string is << >>.  *)
(***************************************************************************)
EXTENDS Integers, Sequences, FiniteSets, TLC

VARIABLES
    pc,            \* position of main: "start", "resolve", "get", "set", "sleep",
                   \* "blocked" (inside an HTTP call for ever) or "exit"
    registeredIP,  \* main.go:148
    currentIP,     \* main.go:148
    err,           \* main.go:149
    record,        \* first value of the A record held by the provider
    publicIP,      \* the address the outside world sees for this host
    stable,        \* TRUE once the environment has stopped changing and failing
    calls,         \* the external calls of the current tick that returned, in order
    logs,          \* the log lines of the current tick, in order
    regAtTick,     \* registeredIP when the current tick started
    curAtTick,     \* currentIP when the current tick started
    getOks,        \* number of Get calls that succeeded in the run (saturating)
    setFailed,     \* TRUE when the latest Set call of the run failed
    getFailed,     \* TRUE when the latest Get call of the run failed
    ticks,         \* number of completed ticks (saturating)
    apiKey,        \* main.go:19, after flag.Parse
    zoneID,        \* main.go:20, after flag.Parse
    recordName,    \* main.go:21, after flag.Parse
    exitCode,      \* status given to os.Exit, read when pc = "exit"
    parse          \* what flag.Parse makes of the command line (main.go:130)

vars == << pc, registeredIP, currentIP, err, record, publicIP, stable,
           calls, logs, regAtTick, curAtTick, getOks, setFailed, getFailed,
           ticks, apiKey, zoneID, recordName, exitCode, parse >>

\* the command line as the flag package reads it; no step changes it
config == << apiKey, zoneID, recordName, parse >>

-----------------------------------------------------------------------------
(* Bounds *)

MaxCount == 2

Sat(n) == IF n < MaxCount THEN n + 1 ELSE n

-----------------------------------------------------------------------------
(* Program constants *)

StatusCreated == 201

RecordTTL == 300

ExitUsage == 2

IPv4len == 4

IPv6len == 16

-----------------------------------------------------------------------------
(* Strings *)

EmptyString == << >>

NL == "\n"

IP_A == << "1", ".", "2", ".", "3", ".", "4" >>

IP_B == << "1", ".", "2", ".", "3", ".", "5" >>

IP_MAPPED == << ":", ":", "f", "f", "f", "f", ":" >> \o IP_A

IP_MAPPED_UPPER == << ":", ":", "F", "F", "F", "F", ":" >> \o IP_B

IP_V6 == << ":", ":", "1" >>

GARBAGE == << "x" >>

Addrs == { IP_A, IP_B }

IndexOf(s, c) ==
    IF \E i \in 1..Len(s) : s[i] = c
    THEN CHOOSE i \in 1..Len(s) : s[i] = c /\ \A j \in 1..(i - 1) : s[j] # c
    ELSE 0

\* positions of the separator c in s
SepPos(s, c) == { i \in 1..Len(s) : s[i] = c }

\* the k-th smallest element of the set of numbers P
Nth(P, k) == CHOOSE i \in P : Cardinality({ j \in P : j < i }) = k - 1

\* the fields of s between the separators c, as strings.Split gives them
Split(s, c) ==
    LET P == SepPos(s, c)
        n == Cardinality(P) + 1
    IN  [ k \in 1..n |->
            SubSeq(s, IF k = 1 THEN 1 ELSE Nth(P, k - 1) + 1,
                      IF k = n THEN Len(s) ELSE Nth(P, k) - 1) ]

-----------------------------------------------------------------------------
(* net.ParseIP and IP.To4, as Resolve uses them (main.go:57-58).  An IP is  *)
(* a sequence of bytes; the nil IP is << >>.                               *)

NilIP == << >>

Digits == { "0", "1", "2", "3", "4", "5", "6", "7", "8", "9" }

HexDigits == Digits \cup { "a", "b", "c", "d", "e", "f" }
                    \cup { "A", "B", "C", "D", "E", "F" }

HexVal(c) ==
    CASE c = "0" -> 0  [] c = "1" -> 1  [] c = "2" -> 2  [] c = "3" -> 3
      [] c = "4" -> 4  [] c = "5" -> 5  [] c = "6" -> 6  [] c = "7" -> 7
      [] c = "8" -> 8  [] c = "9" -> 9  [] c = "a" -> 10 [] c = "b" -> 11
      [] c = "c" -> 12 [] c = "d" -> 13 [] c = "e" -> 14 [] c = "f" -> 15
      [] c = "A" -> 10 [] c = "B" -> 11 [] c = "C" -> 12 [] c = "D" -> 13
      [] c = "E" -> 14 [] c = "F" -> 15

\* the number the first n digits of s spell in the given base
RECURSIVE xtoiUpTo(_, _, _)
xtoiUpTo(s, base, n) ==
    IF n = 0 THEN 0 ELSE xtoiUpTo(s, base, n - 1) * base + HexVal(s[n])

xtoi(s, base) == xtoiUpTo(s, base, Len(s))

\* one decimal field of a dotted quad: 1 to 3 digits, no leading zero, <= 255
DecField(f) ==
    /\ Len(f) \in 1..3
    /\ \A i \in 1..Len(f) : f[i] \in Digits
    /\ (Len(f) > 1 => f[1] # "0")
    /\ xtoi(f, 10) <= 255

parseIPv4(s) ==
    LET f == Split(s, ".")
    IN  IF Len(f) = IPv4len /\ \A i \in 1..IPv4len : DecField(f[i])
        THEN [ i \in 1..IPv4len |-> xtoi(f[i], 10) ]
        ELSE NilIP

\* one group of an IPv6 literal: 1 to 4 hex digits
HexGroup(g) ==
    /\ Len(g) \in 1..4
    /\ \A i \in 1..Len(g) : g[i] \in HexDigits

Zeros(n) == [ i \in 1..n |-> 0 ]

\* the bytes of one part of an IPv6 literal; << >> marks a bad part
PartBytes(p, last) ==
    IF HexGroup(p) THEN << xtoi(p, 16) \div 256, xtoi(p, 16) % 256 >>
    ELSE IF last /\ IndexOf(p, ".") # 0 THEN parseIPv4(p)
    ELSE << >>

RECURSIVE ConcatUpTo(_, _)
ConcatUpTo(ss, n) == IF n = 0 THEN << >> ELSE ConcatUpTo(ss, n - 1) \o ss[n]

Concat(ss) == ConcatUpTo(ss, Len(ss))

parseIPv6(s) ==
    LET raw  == Split(s, ":")
        n0   == Len(raw)
        \* a literal may start or end with "::" but not with a single ":";
        \* the string ":" alone is a single colon at both ends
        badEdge == \/ n0 < 2
                   \/ (raw[1] = << >> /\ (n0 < 3 \/ raw[2] # << >>))
                   \/ (raw[n0] = << >> /\ (n0 < 3 \/ raw[n0 - 1] # << >>))
        lead == IF n0 >= 2 /\ raw[1] = << >> THEN 1 ELSE 0
        cut1 == SubSeq(raw, 1 + lead, n0)
        trail == IF Len(cut1) >= 2 /\ cut1[Len(cut1)] = << >> THEN 1 ELSE 0
        p    == SubSeq(cut1, 1, Len(cut1) - trail)
        n    == Len(p)
        gaps == { i \in 1..n : p[i] = << >> }
        b    == [ i \in 1..n |-> IF i \in gaps THEN << >> ELSE PartBytes(p[i], i = n) ]
        bad  == \E i \in 1..n : i \notin gaps /\ b[i] = << >>
        used == Len(Concat(b))
    IN  IF badEdge \/ bad \/ Cardinality(gaps) > 1 THEN NilIP
        ELSE IF gaps = { }
             THEN IF used = IPv6len THEN Concat(b) ELSE NilIP
        ELSE IF used >= IPv6len THEN NilIP
        ELSE LET e == CHOOSE i \in gaps : TRUE
             IN  Concat(SubSeq(b, 1, e - 1)) \o Zeros(IPv6len - used)
                    \o Concat(SubSeq(b, e + 1, n))

v4InV6Prefix == Zeros(10) \o << 255, 255 >>

ParseIP(s) ==
    LET dot   == IndexOf(s, ".")
        colon == IndexOf(s, ":")
    IN  IF colon # 0 /\ (dot = 0 \/ colon < dot) THEN parseIPv6(s)
        ELSE IF dot # 0
             THEN LET q == parseIPv4(s)
                  IN  IF q = NilIP THEN NilIP ELSE v4InV6Prefix \o q
        ELSE NilIP

To4(ip) ==
    IF Len(ip) = IPv4len THEN ip
    ELSE IF Len(ip) = IPv6len /\ SubSeq(ip, 1, 12) = v4InV6Prefix
         THEN SubSeq(ip, 13, 16)
    ELSE NilIP

-----------------------------------------------------------------------------
(* publicIPResolver.Resolve (main.go:47-62).  probe is what running dig     *)
(* gave: [failed |-> exec error, output |-> bytes printed].                 *)

NoIPv4 == "no ipv4 valid address"

\* Resolve handing back the string it could not parse
Resolve_KeepsString(probe) ==
    IF probe.failed THEN [ val |-> EmptyString, err |-> "exec" ]
    ELSE IF Len(probe.output) = 0 THEN [ val |-> EmptyString, err |-> NoIPv4 ]
    ELSE LET stringIP == SubSeq(probe.output, 1, Len(probe.output) - 1)
             ip       == ParseIP(stringIP)
         IN  IF ip = NilIP \/ To4(ip) = NilIP
             THEN [ val |-> stringIP, err |-> NoIPv4 ]
             ELSE [ val |-> stringIP, err |-> "nil" ]

Resolve(probe) ==
    IF probe.failed THEN [ val |-> EmptyString, err |-> "exec" ]
    ELSE IF Len(probe.output) = 0 THEN [ val |-> EmptyString, err |-> NoIPv4 ]
    ELSE LET stringIP == SubSeq(probe.output, 1, Len(probe.output) - 1)
             ip       == ParseIP(stringIP)
         IN  IF ip = NilIP \/ To4(ip) = NilIP
             THEN [ val |-> EmptyString, err |-> NoIPv4 ]
             ELSE [ val |-> stringIP, err |-> "nil" ]

-----------------------------------------------------------------------------
(* liveDNSConfig.Get (main.go:93-108).  res is what the HTTP exchange gave: *)
(* [failed |-> transport error, status, decodable |-> the body is JSON of   *)
(* the record shape, hasValues |-> rrset_values present and not null,       *)
(* values |-> rrset_values].                                                *)

InvalidRecord == "Invalid Record Response"

Get(res) ==
    IF res.failed THEN [ val |-> EmptyString, err |-> "transport" ]
    ELSE IF ~res.decodable THEN [ val |-> EmptyString, err |-> "decode" ]
    ELSE IF ~res.hasValues \/ Len(res.values) = 0 \/ res.values[1] = EmptyString
         THEN [ val |-> EmptyString, err |-> InvalidRecord ]
    ELSE [ val |-> res.values[1], err |-> "nil" ]

-----------------------------------------------------------------------------
(* liveDNSConfig.Set (main.go:111-127).  The request body carries TTL 300   *)
(* and the one value; res is [failed |-> transport error, status].          *)

SetBody(ip) == [ rrset_ttl |-> RecordTTL, rrset_values |-> << ip >> ]

UnexpectedStatus == "Unexpected Response Status Code"

\* Set taking every 2xx status for a success
Set_Any2xx(res) ==
    IF res.failed THEN "transport"
    ELSE IF res.status \notin 200..299 THEN UnexpectedStatus
    ELSE "nil"

Set(res) ==
    IF res.failed THEN "transport"
    ELSE IF res.status # StatusCreated THEN UnexpectedStatus
    ELSE "nil"

-----------------------------------------------------------------------------
(* The outside world: what dig prints and what the provider answers.  Once *)
(* stable holds, the probe reports the public address and every exchange   *)
(* succeeds.                                                               *)

Line(s) == s \o << NL >>

TrueProbe(pub) == [ failed |-> FALSE, output |-> Line(pub) ]

ProbeResults(pub, st) ==
    IF st THEN { TrueProbe(pub) }
    ELSE { TrueProbe(pub),
           [ failed |-> TRUE,  output |-> EmptyString ],
           [ failed |-> FALSE, output |-> EmptyString ],
           [ failed |-> FALSE, output |-> Line(GARBAGE) ],
           [ failed |-> FALSE, output |-> Line(IP_V6) ],
           [ failed |-> FALSE, output |-> Line(IP_MAPPED) ],
           [ failed |-> FALSE, output |-> Line(IP_MAPPED_UPPER) ],
           [ failed |-> FALSE, output |-> << ":", NL >> ],
           [ failed |-> FALSE, output |-> Line(IP_A) \o Line(IP_B) ],
           [ failed |-> FALSE, output |-> pub ] }

TrueRead(rec) ==
    [ failed |-> FALSE, status |-> 200, decodable |-> TRUE,
      hasValues |-> TRUE, values |-> << rec >> ]

GetResponses(rec, st) ==
    IF st THEN { TrueRead(rec) }
    ELSE { TrueRead(rec),
           [ failed |-> TRUE,  status |-> 0,   decodable |-> FALSE,
             hasValues |-> FALSE, values |-> << >> ],
           [ failed |-> FALSE, status |-> 500, decodable |-> FALSE,
             hasValues |-> FALSE, values |-> << >> ],
           [ failed |-> FALSE, status |-> 404, decodable |-> TRUE,
             hasValues |-> FALSE, values |-> << >> ],
           [ failed |-> FALSE, status |-> 200, decodable |-> TRUE,
             hasValues |-> TRUE,  values |-> << >> ],
           [ failed |-> FALSE, status |-> 200, decodable |-> TRUE,
             hasValues |-> TRUE,  values |-> << EmptyString >> ],
           [ failed |-> FALSE, status |-> 500, decodable |-> TRUE,
             hasValues |-> TRUE,  values |-> << rec >> ] }

Created == [ failed |-> FALSE, status |-> StatusCreated ]

SetResponses(st) ==
    IF st THEN { Created }
    ELSE { Created,
           [ failed |-> FALSE, status |-> 200 ],
           [ failed |-> FALSE, status |-> 500 ],
           [ failed |-> TRUE,  status |-> 0 ] }

\* the provider replaces the record exactly when it answers 201 Created
Stored(rec, body, res) ==
    IF ~res.failed /\ res.status = StatusCreated THEN body.rrset_values[1] ELSE rec

\* every probe result the model draws, and what Resolve makes of each
AllProbes == UNION { ProbeResults(pub, st) : pub \in Addrs, st \in BOOLEAN }

ResolveOf == [ probe \in AllProbes |-> Resolve(probe) ]

-----------------------------------------------------------------------------
(* main (main.go:129-180): the closure loop and the for loop around it.    *)

\* one external call of a tick: what it was given by the outside world (in),
\* the string it returned or, for Set, was passed (val), and whether it
\* returned a nil error
Call(op, val, e, in) == [ op |-> op, val |-> val, ok |-> (e = "nil"), in |-> in ]

\* AfterResolve without the return of main.go:156
AfterResolve_NoReturn(e, reg) ==
    IF reg = EmptyString THEN "get" ELSE "sleep"

\* AfterResolve without the test of main.go:159
AfterResolve_AlwaysGet(e, reg) ==
    IF e # "nil" THEN "sleep" ELSE "get"

\* main.go:154-159: where the tick goes after Resolve returned
AfterResolve(e, reg) ==
    IF e # "nil" THEN "sleep"
    ELSE IF reg = EmptyString THEN "get"
    ELSE "sleep"

\* NeedsUpdate without the comparison of main.go:166
NeedsUpdate_Always(reg, cur) == TRUE

\* main.go:166: the comparison that decides a write
NeedsUpdate(reg, cur) == reg # cur

\* AfterGet without the return of main.go:163
AfterGet_IgnoreErr(e, reg, cur) ==
    IF NeedsUpdate(reg, cur) THEN "set" ELSE "sleep"

\* AfterGet with the test of main.go:161 inverted
AfterGet_SetOnError(e, reg, cur) ==
    IF e = "nil" THEN "sleep"
    ELSE IF NeedsUpdate(reg, cur) THEN "set"
    ELSE "sleep"

\* main.go:161-166: where the tick goes after Get returned
AfterGet(e, reg, cur) ==
    IF e # "nil" THEN "sleep"
    ELSE IF NeedsUpdate(reg, cur) THEN "set"
    ELSE "sleep"

\* RegisteredAfterSet adopting the address before err is looked at
RegisteredAfterSet_Always(reg, cur, e) == cur

\* RegisteredAfterSet adopting the address once Set succeeded
RegisteredAfterSet_Adopt(reg, cur, e) == IF e = "nil" THEN cur ELSE reg

\* main.go:167-171: the Set branch assigns err only; registeredIP is left alone
RegisteredAfterSet(reg, cur, e) == reg

\* ConfigMissing looking at the API key only
ConfigMissing_KeyOnly(key, rec, zone) == key = EmptyString

\* main.go:131: the test on the mandatory flags
ConfigMissing(key, rec, zone) ==
    key = EmptyString \/ rec = EmptyString \/ zone = EmptyString

FlagValues == { EmptyString, << "x" >> }

\* flag.Parse (main.go:130) with the default ExitOnError handling: it
\* returns, or it meets an unknown or malformed flag and exits with 2, or
\* it meets -h or -help, prints the usage and exits
ParseOutcomes == { "ok", "error", "help" }

\* the status of the exit on -h: 0 since Go 1.15, 2 before
HelpExitCodes == { 0, ExitUsage }

Init ==
    /\ pc = "start"
    /\ apiKey \in FlagValues
    /\ zoneID \in FlagValues
    /\ recordName \in FlagValues
    /\ exitCode = 0
    /\ parse \in ParseOutcomes
    /\ registeredIP = EmptyString
    /\ currentIP = EmptyString
    /\ err = "nil"
    /\ record \in Addrs
    /\ publicIP \in Addrs
    /\ stable = FALSE
    /\ calls = << >>
    /\ logs = << >>
    /\ regAtTick = EmptyString
    /\ curAtTick = EmptyString
    /\ getOks = 0
    /\ setFailed = FALSE
    /\ getFailed = FALSE
    /\ ticks = 0

\* main.go:130-149: the command line is parsed and the mandatory flags are
\* checked; the process exits or goes on to the loop
Start ==
    /\ pc = "start"
    /\ \/ /\ parse = "error"
          /\ pc' = "exit" /\ exitCode' = ExitUsage
       \/ /\ parse = "help"
          /\ pc' = "exit" /\ exitCode' \in HelpExitCodes
       \/ /\ parse = "ok"
          /\ IF ConfigMissing(apiKey, recordName, zoneID)
             THEN pc' = "exit" /\ exitCode' = ExitUsage
             ELSE pc' = "resolve" /\ exitCode' = exitCode
    /\ UNCHANGED << config, registeredIP, currentIP, err, record, publicIP,
                    stable, calls, logs, regAtTick, curAtTick, getOks,
                    setFailed, getFailed, ticks >>

\* main.go:176-179: the for loop has no condition and no break
AfterTick(e) == "resolve"

\* main.go:153-159
LoopResolve ==
    /\ pc = "resolve"
    /\ \E probe \in ProbeResults(publicIP, stable) :
          LET r == ResolveOf[probe]
          IN  /\ currentIP' = r.val
              /\ err' = r.err
              /\ calls' = Append(calls, Call("Resolve", r.val, r.err, probe))
              /\ logs' = IF r.err # "nil"
                         THEN Append(logs, "Error: failed to get pulic IP:")
                         ELSE logs
              /\ pc' = AfterResolve(r.err, registeredIP)
    /\ UNCHANGED << config, exitCode, registeredIP, record, publicIP, stable, regAtTick,
                    curAtTick, getOks, setFailed, getFailed, ticks >>

\* main.go:160-166
LoopGet ==
    /\ pc = "get"
    /\ \E res \in GetResponses(record, stable) :
          LET g == Get(res)
          IN  /\ registeredIP' = g.val
              /\ err' = g.err
              /\ calls' = Append(calls, Call("Get", g.val, g.err, res))
              /\ logs' = IF g.err # "nil"
                         THEN Append(logs, "Error: failed to to get current dyndns record:")
                         ELSE logs
              /\ getOks' = IF g.err = "nil" THEN Sat(getOks) ELSE getOks
              /\ getFailed' = (g.err # "nil")
              /\ pc' = AfterGet(g.err, g.val, currentIP)
    /\ UNCHANGED << config, exitCode, currentIP, record, publicIP, stable, regAtTick,
                    curAtTick, setFailed, ticks >>

\* main.go:167-171
LoopSet ==
    /\ pc = "set"
    /\ \E res \in SetResponses(stable) :
          LET e == Set(res)
          IN  /\ err' = e
              /\ record' = Stored(record, SetBody(currentIP), res)
              /\ registeredIP' = RegisteredAfterSet(registeredIP, currentIP, e)
              /\ calls' = Append(calls, Call("Set", currentIP, e, res))
              /\ logs' = IF e # "nil"
                         THEN Append(logs, "Error: updating DNS record:")
                         ELSE Append(logs, "Info: updated Gandi records with IP:")
              /\ setFailed' = (e # "nil")
    /\ pc' = "sleep"
    /\ UNCHANGED << config, exitCode, currentIP, publicIP, stable, regAtTick, curAtTick,
                    getOks, getFailed, ticks >>

\* main.go:176-179: loop() has returned; sleep, then the next tick starts
Sleep ==
    /\ pc = "sleep"
    /\ pc' = AfterTick(err)
    /\ calls' = << >>
    /\ logs' = << >>
    /\ regAtTick' = registeredIP
    /\ curAtTick' = currentIP
    /\ ticks' = Sat(ticks)
    /\ UNCHANGED << config, exitCode, registeredIP, currentIP, err, record, publicIP, stable,
                    getOks, setFailed, getFailed >>

\* main.go:89: http.DefaultClient has no timeout, so a GET or PUT that the
\* provider never answers does not return; loop() stays in the call
Block ==
    /\ pc \in { "get", "set" }
    /\ ~stable
    /\ pc' = "blocked"
    /\ UNCHANGED << config, exitCode, registeredIP, currentIP, err, record,
                    publicIP, stable, calls, logs, regAtTick, curAtTick,
                    getOks, setFailed, getFailed, ticks >>

\* the host's public address changes
ChangeAddress ==
    /\ ~stable
    /\ \E a \in Addrs : a # publicIP /\ publicIP' = a
    /\ UNCHANGED << config, exitCode, pc, registeredIP, currentIP, err, record, stable, calls,
                    logs, regAtTick, curAtTick, getOks, setFailed, getFailed,
                    ticks >>

\* from here on the address stays and every Resolve, Get and Set succeeds
Settle ==
    /\ ~stable
    /\ pc = "resolve"
    /\ stable' = TRUE
    /\ UNCHANGED << config, exitCode, pc, registeredIP, currentIP, err, record, publicIP, calls,
                    logs, regAtTick, curAtTick, getOks, setFailed, getFailed,
                    ticks >>

Tick == LoopResolve \/ LoopGet \/ LoopSet \/ Sleep

Next == Start \/ Tick \/ Block \/ ChangeAddress \/ Settle

Spec == Init /\ [][Next]_vars

\* the process keeps running: main.go:129-135 is executed and the loop goes
\* on to its next call or sleep.  A call that is made need not return: that
\* is the step Block, which no fairness rules out
FairSpec == Spec /\ WF_vars(Start) /\ WF_vars(Tick)

-----------------------------------------------------------------------------
(* What a tick did, read off the calls and log lines it left.              *)

CallsOf(op) == SelectSeq(calls, LAMBDA c : c.op = op)

ResolveCalls == CallsOf("Resolve")

GetCalls == CallsOf("Get")

SetCalls == CallsOf("Set")

SetErrorLine == "Error: updating DNS record:"

ErrorLines == { "Error: failed to get pulic IP:",
                "Error: failed to to get current dyndns record:",
                SetErrorLine }

ErrorLogs == SelectSeq(logs, LAMBDA l : l \in ErrorLines)

\* main is inside the for loop of main.go:176-179
LoopStarted == pc \in { "resolve", "get", "set", "sleep", "blocked" }

\* loop() has returned and main is about to sleep
TickDone == pc = "sleep"

\* Resolve succeeded in this tick
Resolved == calls # << >> /\ calls[1].op = "Resolve" /\ calls[1].ok

ResolveFailed == calls # << >> /\ calls[1].op = "Resolve" /\ ~calls[1].ok

GetFailedNow == GetCalls # << >> /\ ~GetCalls[1].ok

SetFailedNow == SetCalls # << >> /\ ~SetCalls[1].ok

SetSucceededNow == SetCalls # << >> /\ SetCalls[1].ok

\* the registered address the tick had to compare with: the cached one, or
\* the one Get returned in this tick
RegisteredSeen ==
    IF regAtTick # EmptyString THEN regAtTick
    ELSE IF GetCalls # << >> /\ GetCalls[1].ok THEN GetCalls[1].val
    ELSE EmptyString

\* s is a well-formed IPv4 literal: a dotted quad
IPv4Literal(s) == parseIPv4(s) # NilIP

\* the place of a call in the order Resolve, Get, Set
Rank(op) == CASE op = "Resolve" -> 1 [] op = "Get" -> 2 [] op = "Set" -> 3

-----------------------------------------------------------------------------
(* Claims *)

\* C1: once the public address stays at one value and every Resolve, Get and
\* Set succeeds, the provider's record eventually holds that address.
C1_Convergence == [](stable => <>(record = publicIP))

\* C2: a tick whose Resolve succeeds with B while the cached registered
\* address is a non-empty A different from B makes exactly one Set call, with
\* argument B.
C2_OneSetOnDifference ==
    (TickDone /\ Resolved /\ regAtTick # EmptyString /\ regAtTick # currentIP)
        => (Len(SetCalls) = 1 /\ SetCalls[1].val = currentIP)

\* C3: after a tick in which Set(B) returned success, registeredIP equals B.
C3_AdoptAfterSet ==
    (TickDone /\ SetSucceededNow) => registeredIP = SetCalls[1].val

\* C4: a tick whose resolved address equals the registered address (fetched
\* in this tick or cached) makes no Set call.
C4_NoSetWhenEqual ==
    (TickDone /\ Resolved /\ RegisteredSeen = currentIP) => SetCalls = << >>

C4_Witness ==
    /\ TickDone /\ Resolved
    /\ GetCalls # << >> /\ GetCalls[1].ok
    /\ RegisteredSeen = currentIP
    /\ SetCalls = << >>

\* C5: while the latest Set failed, every tick whose resolved address differs
\* from the registered address calls Set once, and logs one error if that
\* call fails too.
C5_FailedSetRetried ==
    (TickDone /\ setFailed /\ Resolved /\ registeredIP # currentIP)
        => /\ Len(SetCalls) = 1
           /\ (~SetCalls[1].ok => Len(ErrorLogs) = 1)

\* C6: when Set fails in a tick, registeredIP after the tick is the value it
\* had before the Set call, and the tick logged the one error line.
C6_SetFailureKeepsRegistered ==
    (TickDone /\ SetFailedNow)
        => /\ registeredIP = RegisteredSeen
           /\ currentIP = SetCalls[1].val
           /\ logs = << SetErrorLine >>

C6_Witness ==
    /\ TickDone /\ SetFailedNow
    /\ registeredIP \in Addrs
    /\ registeredIP # currentIP

\* C7: when Get fails on a tick with an empty cache, the tick makes no Set
\* call and registeredIP stays empty; and while the latest Get failed, every
\* tick whose Resolve succeeds calls Get.
C7_GetFailureSkipsTick ==
    /\ (TickDone /\ GetFailedNow) => (SetCalls = << >> /\ registeredIP = EmptyString)
    /\ (TickDone /\ getFailed /\ Resolved) => Len(GetCalls) = 1

C7_Witness ==
    /\ TickDone /\ ticks >= 1
    /\ getFailed /\ regAtTick = EmptyString
    /\ Resolved /\ GetFailedNow

\* C8: when Resolve fails in a tick, the tick makes no Get and no Set call
\* and registeredIP is what it was when the tick started.
C8_ResolveFailureSkipsTick ==
    (TickDone /\ ResolveFailed)
        => (GetCalls = << >> /\ SetCalls = << >> /\ registeredIP = regAtTick)

C8_Witness ==
    /\ TickDone /\ ResolveFailed
    /\ regAtTick = EmptyString
    /\ Len(calls) = 1

\* C9: Get is called only on ticks that start with registeredIP empty;
\* registeredIP is non-empty exactly when a Get has succeeded, at most one Get
\* ever succeeds, and registeredIP is never empty again once populated.
C9_GetOnlyWhileEmpty ==
    /\ [](/\ (GetCalls # << >> => regAtTick = EmptyString)
          /\ Len(GetCalls) <= 1
          /\ (registeredIP # EmptyString <=> getOks >= 1)
          /\ getOks <= 1)
    /\ [][registeredIP # EmptyString => registeredIP' # EmptyString]_vars

C9_Witness ==
    /\ TickDone /\ ticks >= 1
    /\ getOks = 1 /\ regAtTick # EmptyString
    /\ Resolved /\ GetCalls = << >>

\* C10: once registeredIP is populated, no step changes it.
C10_RegisteredFrozen ==
    [][registeredIP # EmptyString => registeredIP' = registeredIP]_vars

C10_Witness ==
    /\ TickDone /\ SetSucceededNow
    /\ registeredIP # EmptyString
    /\ registeredIP # currentIP
    /\ record = currentIP

\* C11: once the loop has started, every tick comes to its end whatever its
\* outcome, every finished tick is followed by the start of another one, and
\* no step leaves the loop: every run has infinitely many ticks.
C11_LoopNeverEnds ==
    /\ [](LoopStarted => <>TickDone)
    /\ [](TickDone => <>(pc = "resolve"))
    /\ [][LoopStarted => LoopStarted']_vars

\* C12: Resolve succeeds only when the probe printed one well-formed IPv4
\* literal, and then returns that literal; in every other case it returns an
\* error with the empty string.
C12_ResolveIPv4Only ==
    \A i \in 1..Len(calls) :
        calls[i].op = "Resolve" =>
            /\ calls[i].ok => /\ ~calls[i].in.failed
                              /\ calls[i].in.output = Line(calls[i].val)
                              /\ IPv4Literal(calls[i].val)
            /\ ~calls[i].ok => calls[i].val = EmptyString

\* C13: a Set call returns a nil error exactly when the exchange went through
\* and the provider answered 201 Created.
C13_SetOnlyOnCreated ==
    \A i \in 1..Len(calls) :
        calls[i].op = "Set" =>
            (calls[i].ok <=> (~calls[i].in.failed /\ calls[i].in.status = 201))

C13_Witness ==
    /\ TickDone /\ SetFailedNow
    /\ ~SetCalls[1].in.failed
    /\ SetCalls[1].in.status = 200
    /\ logs = << SetErrorLine >>

\* C14: a Get call returns a nil error only when the response has a 2xx
\* status, a decodable body and a non-empty first value, and then returns
\* that value; a response with another status yields no value and leaves
\* registeredIP empty.
C14_GetOnlyOnSuccessStatus ==
    \A i \in 1..Len(calls) :
        calls[i].op = "Get" =>
            /\ calls[i].ok =>
                  /\ ~calls[i].in.failed
                  /\ calls[i].in.status \in 200..299
                  /\ calls[i].in.decodable
                  /\ calls[i].in.hasValues
                  /\ Len(calls[i].in.values) > 0
                  /\ calls[i].in.values[1] # EmptyString
                  /\ calls[i].val = calls[i].in.values[1]
            /\ calls[i].in.status \notin 200..299 =>
                  /\ ~calls[i].ok
                  /\ calls[i].val = EmptyString
                  /\ (pc \in { "set", "sleep" } => registeredIP = EmptyString)

\* C15 as stated: when the API key, the zone or the record name is empty the process
\* exits with a non-zero status before the loop, having made no Resolve, Get
\* or Set call; when all three are given the loop is entered.
C15_StartupValidation ==
    /\ pc = "exit" =>
          /\ (apiKey = EmptyString \/ zoneID = EmptyString \/ recordName = EmptyString)
          /\ exitCode # 0
          /\ calls = << >> /\ ticks = 0 /\ getOks = 0
          /\ ~setFailed /\ ~getFailed
    /\ (apiKey = EmptyString \/ zoneID = EmptyString \/ recordName = EmptyString)
          => pc \in { "start", "exit" }
    /\ LoopStarted => exitCode = 0

\* C15 as amended: when flag.Parse returns, an empty API key, zone or record
\* name makes the process exit with status 2 and three non-empty ones let
\* the loop start; every exit at startup, those of flag.Parse included,
\* comes before any Resolve, Get or Set call.
C15_StartupValidationParsed ==
    /\ pc = "exit" =>
          /\ calls = << >> /\ ticks = 0 /\ getOks = 0
          /\ ~setFailed /\ ~getFailed
          /\ (parse = "ok" =>
                /\ (apiKey = EmptyString \/ zoneID = EmptyString
                        \/ recordName = EmptyString)
                /\ exitCode = 2)
          /\ (parse = "error" => exitCode = 2)
          /\ (parse = "help" => exitCode \in { 0, 2 })
    /\ (apiKey = EmptyString \/ zoneID = EmptyString \/ recordName = EmptyString)
          => pc \in { "start", "exit" }
    /\ parse # "ok" => pc \in { "start", "exit" }

C15_Witness ==
    /\ pc = "exit" /\ exitCode = 2
    /\ parse = "ok"
    /\ apiKey # EmptyString /\ recordName # EmptyString
    /\ zoneID = EmptyString

\* C16: the calls of a tick come in the order Resolve, Get, Set, each at most
\* once; Get is called only after Resolve succeeded in the tick, Set only
\* after Resolve succeeded and with a registered address at hand; and a new
\* tick starts only out of the sleep that ended the one before.
C16_CallOrder ==
    /\ [](/\ \A i, j \in 1..Len(calls) :
                i < j => Rank(calls[i].op) < Rank(calls[j].op)
          /\ (GetCalls # << >> => Resolved)
          /\ (SetCalls # << >> => (Resolved /\ registeredIP # EmptyString))
          /\ (pc = "resolve" => calls = << >>))
    /\ [][(pc # "resolve" /\ pc' = "resolve") => pc \in { "sleep", "start" }]_vars

C16_Witness ==
    /\ TickDone
    /\ Len(calls) = 3
    /\ calls[1].op = "Resolve" /\ calls[2].op = "Get" /\ calls[3].op = "Set"

\* C17 as stated: a tick in which Resolve fails changes no loop state;
\* currentIP after the tick is the address it held before the tick.
C17_ResolveFailureKeepsCurrent ==
    (TickDone /\ ResolveFailed)
        => (currentIP = curAtTick /\ registeredIP = regAtTick)

\* C17 as amended: a tick in which Resolve fails leaves registeredIP as it
\* was, but overwrites currentIP with the empty string and err with the error.
C17_ResolveFailureClearsCurrent ==
    (TickDone /\ ResolveFailed)
        => (currentIP = EmptyString /\ err # "nil" /\ registeredIP = regAtTick)

C17_Witness ==
    /\ TickDone /\ ResolveFailed
    /\ curAtTick \in Addrs
    /\ currentIP = EmptyString

\* C18: every Set call carries the address that a successful Resolve returned
\* in the same tick, and that address is a non-empty well-formed IPv4 literal.
C18_SetCarriesResolvedIPv4 ==
    \A i \in 1..Len(calls) :
        calls[i].op = "Set" =>
            /\ Resolved
            /\ calls[i].val = calls[1].val
            /\ calls[i].val # EmptyString
            /\ IPv4Literal(calls[i].val)

=============================================================================
